---- MODULE Spec2Model ----
(***************************************************************************)
(* Model of reflow_latex.py: the line classifier (paragraphs), the span    *)
(* joiner (join_spans), the tokenizer (Span.tokenize), the cost model      *)
(* (static_costs, line_cost) and the dynamic-programming segmenter         *)
(* (segment), composed as in reflow().                                     *)
(*                                                                         *)
(* A Python str is modelled as a sequence of one-character strings, so     *)
(* stripping, splitting and joining are computed character by character.   *)
(* Python's 0-based arrays are modelled as functions on 0..n-1; a Python   *)
(* list of tokens is a 1-based sequence read through Slice.                *)
(***************************************************************************)
EXTENDS Integers, Sequences, FiniteSets, TLC

(***************************************************************************)
(* Bounds of the model.                                                    *)
(***************************************************************************)
\* longest input (number of lines) given to reflow()
MaxLines == 3
\* longest token list given to segment() in SegSpec
MaxTokens == 4
\* longest span sequence given to join_spans() in JoinSpec
MaxSpans == 4
\* largest number of names in the directory given to regexrename
MaxFiles == 3

(***************************************************************************)
(* Cost tables (reflow_latex.py lines 55-83).  The costs are floats in the *)
(* source, all of them integral, so integer arithmetic is exact.           *)
(***************************************************************************)
CHARS_OPT == 80
CHARS_LONG == 115
CHARS_MAX == 120
COST_LINE == CHARS_MAX - CHARS_OPT
COST_LONG == 5
COST_TOOLONG == 100
COST_SHORTDELIMITED == 80
COST_FULLSTOP == -55
COST_COMMA == -38
COST_FUNC == -15
SHORT_DELIM == 4
FULLSTOPS == {".", "!", "?"}
COMMAS == {",", ":"}
FUNC_WORDS ==
    { <<"a">>, <<"a","n","d">>, <<"a","r","e">>, <<"a","s">>, <<"b","u","t">>,
      <<"b","y">>, <<"f","o","r">>, <<"h","a","v","i","n","g">>, <<"i","n">>,
      <<"i","s">>, <<"o","f">>, <<"o","r">>, <<"t","h","a","t">>,
      <<"t","h","i","s">>, <<"t","h","e">>, <<"t","o">>,
      <<"u","s","i","n","g">>, <<"w","e","r","e">>, <<"w","h","e","r","e">>,
      <<"w","h","e","n">>, <<"w","h","i","c","h">>, <<"w","i","t","h">>,
      <<"w","i","t","h","o","u","t">> }
\* the grave accent character, which a TLA+ string literal cannot hold
GRAVE == "grave"
\* DELIMS: each entry is <<opening marker, closing marker>>
DELIMS == << <<<<"{">>, <<"}">>>>, <<<<"(">>, <<")">>>>, <<<<"[">>, <<"]">>>>,
             <<<<GRAVE, GRAVE>>, <<"'", "'">>>> >>
\* np.infty: larger than every finite cost the model can reach
Infty == 1000000

(***************************************************************************)
(* Python str primitives.                                                  *)
(***************************************************************************)
\* characters str.strip() and str.split() treat as whitespace
WHITESPACE == {" ", "\t", "\n", "\r"}

\* s.lstrip(chars): s from its first character outside chars
LStrip(s, chars) ==
    IF \A i \in 1..Len(s) : s[i] \in chars THEN <<>>
    ELSE SubSeq(s, CHOOSE i \in 1..Len(s) :
                      s[i] \notin chars /\ \A k \in 1..(i - 1) : s[k] \in chars,
                Len(s))

\* s.rstrip(chars): s up to its last character outside chars
RStrip(s, chars) ==
    IF \A i \in 1..Len(s) : s[i] \in chars THEN <<>>
    ELSE SubSeq(s, 1, CHOOSE i \in 1..Len(s) :
                         s[i] \notin chars /\ \A k \in (i + 1)..Len(s) : s[k] \in chars)

\* s.strip(chars)
StripChars(s, chars) == RStrip(LStrip(s, chars), chars)

\* s.strip()
Strip(s) == StripChars(s, WHITESPACE)

\* ''.join(parts)
RECURSIVE Concat(_)
Concat(parts) ==
    IF parts = <<>> THEN <<>> ELSE Head(parts) \o Concat(Tail(parts))

\* ' '.join(tokens)
RECURSIVE JoinSp(_)
JoinSp(tokens) ==
    IF tokens = <<>> THEN <<>>
    ELSE IF Len(tokens) = 1 THEN Head(tokens)
    ELSE Head(tokens) \o <<" ">> \o JoinSp(Tail(tokens))

\* s.split(): the maximal runs of non-whitespace characters, in order
Split(s) ==
    LET starts == {i \in 1..Len(s) :
                      s[i] \notin WHITESPACE /\ (i = 1 \/ s[i - 1] \in WHITESPACE)}
        ends == {i \in 1..Len(s) :
                    s[i] \notin WHITESPACE
                    /\ (i = Len(s) \/ s[i + 1] \in WHITESPACE)}
        nth(S, k) == CHOOSE i \in S : Cardinality({m \in S : m <= i}) = k
    IN [k \in 1..Cardinality(starts) |-> SubSeq(s, nth(starts, k), nth(ends, k))]

\* sub in s, for a non-empty marker sub
Contains(s, sub) ==
    \E i \in 1..(Len(s) - Len(sub) + 1) :
        s[i] = sub[1] /\ SubSeq(s, i, i + Len(sub) - 1) = sub

\* token.lower()
UPPERCASE == <<"A","B","C","D","E","F","G","H","I","J","K","L","M",
               "N","O","P","Q","R","S","T","U","V","W","X","Y","Z">>
LOWERCASE == <<"a","b","c","d","e","f","g","h","i","j","k","l","m",
               "n","o","p","q","r","s","t","u","v","w","x","y","z">>
LowerOf ==
    [c \in {UPPERCASE[k] : k \in 1..26} |->
        LOWERCASE[CHOOSE k \in 1..26 : UPPERCASE[k] = c]]
LowerChar(c) == IF c \in DOMAIN LowerOf THEN LowerOf[c] ELSE c
Lower(s) == [i \in 1..Len(s) |-> LowerChar(s[i])]

\* Python's list[a:b] for 0 <= a, on a 1-based sequence
Slice(list, a, b) == SubSeq(list, a + 1, IF b > Len(list) THEN Len(list) ELSE b)

RECURSIVE Reverse(_)
Reverse(s) == IF s = <<>> THEN <<>> ELSE Append(Reverse(Tail(s)), Head(s))

(***************************************************************************)
(* The line patterns (reflow_latex.py lines 78-81).                        *)
(***************************************************************************)
\* RE_STARTSPACE = ^[ \t]
RE_STARTSPACE(ln) == ln # <<>> /\ ln[1] \in {" ", "\t"}

\* RE_COMMENT = (?<!\\)% : a percent sign not preceded by a backslash
RE_COMMENT(ln) ==
    \E i \in 1..Len(ln) : ln[i] = "%" /\ (i = 1 \/ ln[i - 1] # "\\")

\* RE_SINGLECOMMAND = ^\\.*}%?$ matched against the stripped line
RE_SINGLECOMMAND(ln) ==
    /\ Len(ln) >= 2
    /\ ln[1] = "\\"
    /\ \A i \in 1..Len(ln) : ln[i] # "\n"
    /\ \/ ln[Len(ln)] = "}"
       \/ Len(ln) >= 3 /\ ln[Len(ln)] = "%" /\ ln[Len(ln) - 1] = "}"

\* RE_ENDBREAK = \\\\$ : the line ends with a double backslash
RE_ENDBREAK_Never(ln) == FALSE
RE_ENDBREAK(ln) ==
    Len(ln) >= 2 /\ ln[Len(ln)] = "\\" /\ ln[Len(ln) - 1] = "\\"

(***************************************************************************)
(* Cost model.                                                             *)
(***************************************************************************)
Abs(x) == IF x < 0 THEN -x ELSE x

\* costs[a:b] += v on a 0-based array
AddRange(costs, a, b, v) ==
    [k \in DOMAIN costs |-> IF a <= k /\ k < b THEN costs[k] + v ELSE costs[k]]

\* the loop over DELIMS for the token at index i; st = [costs, open], where
\* open[d] = -1 stands for open_delims[d] = None
RECURSIVE DelimLoop(_, _, _, _)
DelimLoop(token, i, d, st) ==
    IF d > Len(DELIMS) THEN st
    ELSE
      LET opening == DELIMS[d][1]
          closing == DELIMS[d][2]
          open1 == IF Contains(token, opening) /\ ~Contains(token, closing)
                   THEN [st.open EXCEPT ![d] = i] ELSE st.open
          closes == Contains(token, closing) /\ open1[d] # -1
          costs2 == IF closes /\ open1[d] >= i - SHORT_DELIM
                    THEN AddRange(st.costs, open1[d], i, COST_SHORTDELIMITED)
                    ELSE st.costs
          open2 == IF closes THEN [open1 EXCEPT ![d] = -1] ELSE open1
      IN DelimLoop(token, i, d + 1, [costs |-> costs2, open |-> open2])

\* one iteration of the loop of static_costs, for the token at index i
StaticToken(token, i, st) ==
    IF Len(token) = 0 THEN st
    ELSE
      LET last == token[Len(token)]
          c1 == IF last \in FULLSTOPS
                THEN [st.costs EXCEPT ![i] = @ + COST_FULLSTOP] ELSE st.costs
          c2 == IF last \in COMMAS
                THEN [c1 EXCEPT ![i] = @ + COST_COMMA] ELSE c1
          c3 == IF Lower(token) \in FUNC_WORDS
                THEN LET after == [c2 EXCEPT ![i] = @ - COST_FUNC]
                     IN IF i > 0 THEN [after EXCEPT ![i - 1] = @ + COST_FUNC]
                        ELSE after
                ELSE c2
      IN DelimLoop(token, i, 1, [costs |-> c3, open |-> st.open])

RECURSIVE StaticLoop(_, _, _)
StaticLoop(ln, i, st) ==
    IF i \notin DOMAIN st.costs THEN st
    ELSE StaticLoop(ln, i + 1, StaticToken(ln[i + 1], i, st))

\* static_costs(line): the cost of breaking after the token at each index
static_costs(ln) ==
    StaticLoop(ln, 0,
               [costs |-> [k \in 0..(Len(ln) - 1) |-> 0],
                open |-> [d \in 1..Len(DELIMS) |-> -1]]).costs

\* line_cost(line)
line_cost_NoAbs(ln) ==
    LET n_chars == Len(JoinSp(ln))
        extra0 == IF n_chars > CHARS_MAX THEN COST_TOOLONG ELSE 0
        extra == IF n_chars > CHARS_LONG THEN extra0 + COST_LONG ELSE extra0
    IN (n_chars - CHARS_OPT) + COST_LINE + extra
line_cost(ln) ==
    LET n_chars == Len(JoinSp(ln))
        extra0 == IF n_chars > CHARS_MAX THEN COST_TOOLONG ELSE 0
        extra == IF n_chars > CHARS_LONG THEN extra0 + COST_LONG ELSE extra0
    IN Abs(n_chars - CHARS_OPT) + COST_LINE + extra

\* noblank(tokens)
noblank_KeepAll(tokens) == tokens
RECURSIVE noblank(_)
noblank(tokens) ==
    IF tokens = <<>> THEN <<>>
    ELSE IF Len(Head(tokens)) > 0 THEN <<Head(tokens)>> \o noblank(Tail(tokens))
    ELSE noblank(Tail(tokens))

(***************************************************************************)
(* Segmenter: the dynamic program of segment() and its back-pointer walk.  *)
(***************************************************************************)
\* np.argmin: the first index holding the minimum
ArgMin(arr) ==
    CHOOSE b \in DOMAIN arr :
        /\ \A k \in DOMAIN arr : arr[b] <= arr[k]
        /\ \A k \in DOMAIN arr : k < b => arr[k] > arr[b]

\* the array current after the inner loop over i in range(j)
DPCurrent(ln, dpc, jj) ==
    [i \in 0..(Len(ln) - 1) |->
        IF i < jj THEN dpc[i] + line_cost(Slice(ln, i + 1, jj)) ELSE Infty]

\* one iteration j of the outer loop; dp = [cost, back]
DPStep(ln, sc, dp, jj) ==
    LET row == DPCurrent(ln, dp.cost, jj)
        best == ArgMin(row)
    IN [cost |-> [dp.cost EXCEPT ![jj] = row[best] + sc[jj - 1]],
        back |-> [dp.back EXCEPT ![jj] = best]]

\* dpcost and dpback before the loop
DPInit(n_tokens) ==
    [cost |-> [k \in 0..(n_tokens - 1) |-> IF k = 0 THEN 0 ELSE Infty],
     back |-> [k \in 0..(n_tokens - 1) |-> IF k = 0 THEN -1 ELSE 0]]

RECURSIVE DPLoop(_, _, _, _)
DPLoop(ln, sc, dp, jj) ==
    IF jj \notin DOMAIN dp.back THEN dp
    ELSE DPLoop(ln, sc, DPStep(ln, sc, dp, jj), jj + 1)

\* the output line appended by one iteration of the walk
WalkLine_SkipFirst(ln, cu, pcu) ==
    JoinSp(noblank(Slice(ln, cu + 1, pcu)))
WalkLine(ln, cu, pcu) ==
    JoinSp(noblank(Slice(ln, cu, pcu)))

RECURSIVE WalkLoop(_, _, _, _, _)
WalkLoop(ln, back, acc, pcu, cu) ==
    IF cu > -1
    THEN WalkLoop(ln, back, Append(acc, WalkLine(ln, cu, pcu)),
                  cu, back[cu])
    ELSE acc

\* segment(line): the output lines, in order
segment(tokens) ==
    LET ln == <<<<>>>> \o tokens
        n_tokens == Len(ln)
        dp == DPLoop(ln, static_costs(ln), DPInit(n_tokens), 1)
    IN Reverse(WalkLoop(ln, dp.back, <<>>, n_tokens, dp.back[n_tokens - 1]))

(***************************************************************************)
(* Span, Classifier (paragraphs), Tokenizer, Joiner (join_spans).          *)
(***************************************************************************)
\* Span(parts, segment, join_left, join_right) for a str argument
SpanStr(text, seg, jl, jr) ==
    [content |-> text, segment |-> seg, join_left |-> jl, join_right |-> jr]

\* Span(parts, ...) for a list argument: ''.join(parts).strip()
SpanParts_PreferLeft(parts, seg, jl, jr) ==
    [content |-> Strip(Concat(parts)), segment |-> seg,
     join_left |-> "prefer", join_right |-> jr]
SpanParts(parts, seg, jl, jr) ==
    [content |-> Strip(Concat(parts)), segment |-> seg,
     join_left |-> jl, join_right |-> jr]

\* Span.tokenize(): content becomes a list of tokens
tokenize(span) ==
    [span EXCEPT !.content = IF span.segment THEN Split(@) ELSE <<@>>]

\* which branch of the loop of paragraphs() a line takes
LineClass(ln) ==
    IF RE_STARTSPACE(ln) THEN "indented"
    ELSE IF Len(Strip(ln)) = 0 THEN "blank"
    ELSE IF RE_COMMENT(Strip(ln)) THEN "comment"
    ELSE IF RE_SINGLECOMMAND(Strip(ln)) THEN "command"
    ELSE "prose"

\* the separator appended after a prose line
ProseSep_AlwaysSpace(stripped) == <<" ">>
ProseSep(stripped) ==
    IF stripped[Len(stripped)] = "-" THEN <<>> ELSE <<" ">>

\* the text of a prose line that is accumulated: a trailing hyphen is cut
ProseBody(stripped) ==
    IF stripped[Len(stripped)] = "-"
    THEN SubSeq(stripped, 1, Len(stripped) - 1) ELSE stripped

\* the span yielded for a line that is emitted verbatim
VerbatimSpan_Stripped(class, ln) ==
    CASE class = "indented" -> SpanStr(Strip(ln), FALSE, "forbid", "forbid")
      [] class = "blank" -> SpanStr(<<>>, FALSE, "allow", "forbid")
      [] class = "comment" -> SpanStr(Strip(ln), FALSE, "prefer", "forbid")
      [] class = "command" -> SpanStr(Strip(ln), FALSE, "forbid", "forbid")
VerbatimSpan_BlankPrefer(class, ln) ==
    CASE class = "indented" ->
            SpanStr(StripChars(ln, {"\n"}), FALSE, "forbid", "forbid")
      [] class = "blank" -> SpanStr(<<>>, FALSE, "prefer", "forbid")
      [] class = "comment" -> SpanStr(Strip(ln), FALSE, "prefer", "forbid")
      [] class = "command" -> SpanStr(Strip(ln), FALSE, "forbid", "forbid")
VerbatimSpan(class, ln) ==
    CASE class = "indented" ->
            SpanStr(StripChars(ln, {"\n"}), FALSE, "forbid", "forbid")
      [] class = "blank" -> SpanStr(<<>>, FALSE, "allow", "forbid")
      [] class = "comment" -> SpanStr(Strip(ln), FALSE, "prefer", "forbid")
      [] class = "command" -> SpanStr(Strip(ln), FALSE, "forbid", "forbid")

\* one iteration of the loop of paragraphs(): the spans yielded for the line
\* and the accumulator afterwards
ParagraphsLine(cur, ln) ==
    LET class == LineClass(ln) IN
    IF class # "prose"
    THEN [yield |-> <<SpanParts(cur, TRUE, "allow", "allow"),
                      VerbatimSpan(class, ln)>>,
          current |-> <<>>]
    ELSE LET stripped == Strip(ln)
             body == ProseBody(stripped)
             acc == cur \o <<body, ProseSep(stripped)>>
         IN IF RE_ENDBREAK(body)
            THEN [yield |-> <<SpanParts(acc, TRUE, "allow", "forbid")>>,
                  current |-> <<>>]
            ELSE [yield |-> <<>>, current |-> acc]

\* the final yield of paragraphs(), after the loop
ParagraphsEnd(cur) == <<SpanParts(cur, TRUE, "allow", "allow")>>

\* one iteration of the loop of join_spans(); prev is <<>> for None,
\* <<span>> otherwise
JoinStep_MergeInFront(prev, span) ==
    IF prev = <<>> THEN [yield |-> <<>>, previous |-> <<span>>]
    ELSE IF prev[1].join_right = "forbid"
         THEN [yield |-> prev, previous |-> <<span>>]
    ELSE IF span.join_left = "prefer"
         THEN [yield |-> <<>>,
               previous |-> <<[prev[1] EXCEPT !.content = span.content \o @]>>]
    ELSE [yield |-> prev, previous |-> <<span>>]
JoinStep_DropMerged(prev, span) ==
    IF prev = <<>> THEN [yield |-> <<>>, previous |-> <<span>>]
    ELSE IF prev[1].join_right = "forbid"
         THEN [yield |-> prev, previous |-> <<span>>]
    ELSE IF span.join_left = "prefer"
         THEN [yield |-> <<>>, previous |-> prev]
    ELSE [yield |-> prev, previous |-> <<span>>]
JoinStep(prev, span) ==
    IF prev = <<>> THEN [yield |-> <<>>, previous |-> <<span>>]
    ELSE IF prev[1].join_right = "forbid"
         THEN [yield |-> prev, previous |-> <<span>>]
    ELSE IF span.join_left = "prefer"
         THEN [yield |-> <<>>,
               previous |-> <<[prev[1] EXCEPT !.content = @ \o span.content]>>]
    ELSE [yield |-> prev, previous |-> <<span>>]

\* join_spans() fed the spans one after the other
RECURSIVE JoinFeed(_, _)
JoinFeed(prev, sps) ==
    IF sps = <<>> THEN [yield |-> <<>>, previous |-> prev]
    ELSE LET one == JoinStep(prev, Head(sps))
             rest == JoinFeed(one.previous, Tail(sps))
         IN [yield |-> one.yield \o rest.yield, previous |-> rest.previous]

\* the lines segment_spans() yields for one span
SegmentSpan(span) ==
    LET segments == IF span.segment THEN segment(span.content) ELSE span.content
    IN [k \in 1..Len(segments) |-> segments[k] \o <<"\n">>]

\* segment_spans(spans)
RECURSIVE segment_spans(_)
segment_spans(sps) ==
    IF sps = <<>> THEN <<>>
    ELSE SegmentSpan(Head(sps)) \o segment_spans(Tail(sps))

TokenizeAll(sps) == [k \in 1..Len(sps) |-> tokenize(sps[k])]

\* the generator chain of reflow() advanced by one input line;
\* st = [current, previous, spans, joined, output]
FeedLine(st, ln) ==
    LET p == ParagraphsLine(st.current, ln)
        jj == JoinFeed(st.previous, TokenizeAll(p.yield))
    IN [current |-> p.current, previous |-> jj.previous,
        spans |-> st.spans \o p.yield, joined |-> st.joined \o jj.yield,
        output |-> st.output \o segment_spans(jj.yield)]

\* the generator chain of reflow() when the input is exhausted
FeedEnd(st) ==
    LET p == ParagraphsEnd(st.current)
        jj == JoinFeed(st.previous, TokenizeAll(p))
        all == jj.yield \o jj.previous
    IN [current |-> <<>>, previous |-> <<>>,
        spans |-> st.spans \o p, joined |-> st.joined \o all,
        output |-> st.output \o segment_spans(all)]

ReflowStart ==
    [current |-> <<>>, previous |-> <<>>, spans |-> <<>>, joined |-> <<>>,
     output |-> <<>>]

RECURSIVE ReflowLoop(_, _)
ReflowLoop(st, lines) ==
    IF lines = <<>> THEN FeedEnd(st)
    ELSE ReflowLoop(FeedLine(st, Head(lines)), Tail(lines))

\* reflow(items): the output lines
reflow(lines) == ReflowLoop(ReflowStart, lines).output

(***************************************************************************)
(* Inputs of the model.                                                    *)
(***************************************************************************)
\* a word of n copies of the character c
Word(c, n) == [i \in 1..n |-> c]

\* the input lines reflow() is run on: every line as readlines() gives it,
\* with its newline; all cases of the classifier, and words long enough
\* for the segmenter to split a paragraph
SampleLines ==
    { <<"b", " ", "c", ".", "\n">>,
      <<"a", "-", "\n">>,
      <<"a", "-", "-", "\n">>,
      <<"a", " ", "-", "\n">>,
      <<"a", "\\", "\\", "\n">>,
      <<"a", "\\", "\\", "-", "\n">>,
      <<" ", "x", "\n">>,
      <<" ", "\n">>,
      <<"\n">>,
      <<"a", " ", "%", "c", " ", "\n">>,
      <<"\\", "a", "}", " ", "\n">>,
      Word("h", 38) \o <<"-", " ">> \o Word("x", 60) \o <<" ">>
          \o Word("m", 38) \o <<".", " ", "x", ".", "\n">> }

\* the tokens segment() is run on in SegSpec: function words, sentence and
\* clause ends, delimiters, words of 39 and 60 characters, and a word
\* longer than CHARS_MAX
SampleTokens ==
    { <<"T", "h", "e">>, <<"x", ".">>, <<"y", ",">>, <<"(", "z">>, <<"w", ")">>,
      Word("m", 38) \o <<".">>, Word("x", 60), Word("y", CHARS_MAX + 1) }

\* the sequences over S of length at most n
SeqsUpTo(S, n) == UNION { [1..k -> S] : k \in 0..n }

(***************************************************************************)
(* State.                                                                  *)
(***************************************************************************)
VARIABLES
    items,       \* reflow(): the input lines consumed so far
    current,     \* paragraphs(): the accumulator
    spans,       \* the spans paragraphs() has yielded so far
    previous,    \* join_spans(): the pending span, <<>> for None
    joined,      \* the spans join_spans() has yielded so far
    output,      \* the lines reflow() has yielded so far
    pc,          \* reflow(): "reading" | "done"
    line,        \* segment(): the token list (with the sentinel once padded)
    scosts,      \* segment(): static costs, indexed from 0
    dpcost,      \* segment(): best cost per position, indexed from 0
    dpback,      \* segment(): back pointer per position, indexed from 0
    j,           \* segment(): the outer loop index
    out,         \* segment(): the lines appended by the walk
    prevcursor,  \* segment(): walk state
    cursor,      \* segment(): walk state
    segments,    \* segment(): the returned lines
    segpc,       \* segment(): "idle" | "call" | "dp" | "walk" | "done"
    files,       \* regexrename: the names that exist in the directory
    transform,   \* Renamer.transform: the new name of each name
    fnames,      \* Renamer.visit(): the sorted names of the directory
    nvisited,    \* Renamer.visit(): how many names the loop has taken
    local,       \* Renamer.visit(): the actions seen, unchanged names too
    schedule,    \* Renamer.schedule
    failed,      \* Renamer.failed
    todo,        \* Renamer.execute(): the actions not yet applied
    rpc          \* regexrename main(): "idle" | "visit" | "execute" |
                 \* "refused" | "fatal" | "assertion" | "done"

reflowVars == <<items, current, spans, previous, joined, output, pc>>
segVars == <<line, scosts, dpcost, dpback, j, out, prevcursor, cursor,
             segments, segpc>>
renVars == <<files, transform, fnames, nvisited, local, schedule, failed,
             todo, rpc>>
vars == <<items, current, spans, previous, joined, output, pc,
          line, scosts, dpcost, dpback, j, out, prevcursor, cursor,
          segments, segpc,
          files, transform, fnames, nvisited, local, schedule, failed,
          todo, rpc>>

\* the state of the generator chain as one record
ChainState ==
    [current |-> current, previous |-> previous, spans |-> spans,
     joined |-> joined, output |-> output]

SetChain(st) ==
    /\ current' = st.current
    /\ previous' = st.previous
    /\ spans' = st.spans
    /\ joined' = st.joined
    /\ output' = st.output

SegIdle ==
    /\ line = <<>> /\ scosts = <<>> /\ dpcost = <<>> /\ dpback = <<>>
    /\ j = 0 /\ out = <<>> /\ prevcursor = 0 /\ cursor = 0
    /\ segments = <<>>

ReflowIdle ==
    /\ items = <<>> /\ current = <<>> /\ spans = <<>> /\ previous = <<>>
    /\ joined = <<>> /\ output = <<>>

RenIdle ==
    /\ files = {} /\ transform = <<>> /\ fnames = <<>> /\ nvisited = 0
    /\ local = <<>> /\ schedule = <<>> /\ failed = 0 /\ todo = <<>>
    /\ rpc = "idle"

(***************************************************************************)
(* reflow() over an input read line by line.                               *)
(***************************************************************************)
Init ==
    /\ ReflowIdle /\ pc = "reading"
    /\ SegIdle /\ segpc = "idle"
    /\ RenIdle

\* the sample lines that take each branch of the loop of paragraphs()
IndentedLines == {text \in SampleLines : LineClass(text) = "indented"}
BlankLines == {text \in SampleLines : LineClass(text) = "blank"}
CommentLines == {text \in SampleLines : LineClass(text) = "comment"}
CommandLines == {text \in SampleLines : LineClass(text) = "command"}
ProseLines == {text \in SampleLines : LineClass(text) = "prose"}

\* the for loop of paragraphs() takes one more line, out of the given ones,
\* and the generators downstream consume what it yields
Read(lines) ==
    /\ pc = "reading"
    /\ Len(items) < MaxLines
    /\ \E text \in lines :
        /\ items' = Append(items, text)
        /\ \E st \in {FeedLine(ChainState, text)} : SetChain(st)
    /\ UNCHANGED <<pc, segVars, renVars>>

ReadIndented == Read(IndentedLines)
ReadBlank == Read(BlankLines)
ReadComment == Read(CommentLines)
ReadCommand == Read(CommandLines)
ReadProse == Read(ProseLines)

\* the input is exhausted: paragraphs() yields its last span, join_spans()
\* its pending span, and reflow() returns
EndOfInput ==
    /\ pc = "reading"
    /\ \E st \in {FeedEnd(ChainState)} : SetChain(st)
    /\ pc' = "done"
    /\ UNCHANGED <<items, segVars, renVars>>

Next ==
    \/ ReadIndented
    \/ ReadBlank
    \/ ReadComment
    \/ ReadCommand
    \/ ReadProse
    \/ EndOfInput

Spec == Init /\ [][Next]_vars

(***************************************************************************)
(* segment() on one token list, loop iteration by loop iteration.          *)
(***************************************************************************)
SegInit ==
    /\ ReflowIdle /\ pc = "done"
    /\ line \in SeqsUpTo(SampleTokens, MaxTokens)
    /\ scosts = <<>> /\ dpcost = <<>> /\ dpback = <<>>
    /\ j = 0 /\ out = <<>> /\ prevcursor = 0 /\ cursor = 0
    /\ segments = <<>>
    /\ segpc = "call"
    /\ RenIdle

\* lines 193-200: pad with the sentinel, set up the arrays
SegStart ==
    /\ segpc = "call"
    /\ line' = <<<<>>>> \o line
    /\ scosts' = static_costs(line')
    /\ dpcost' = DPInit(Len(line')).cost
    /\ dpback' = DPInit(Len(line')).back
    /\ j' = 1
    /\ segpc' = "dp"
    /\ UNCHANGED <<out, prevcursor, cursor, segments, reflowVars, renVars>>

\* lines 201-209: one iteration of the outer loop
SegDP ==
    /\ segpc = "dp"
    /\ j < Len(line)
    /\ \E dp \in {DPStep(line, scosts, [cost |-> dpcost, back |-> dpback], j)} :
          /\ dpcost' = dp.cost
          /\ dpback' = dp.back
    /\ j' = j + 1
    /\ UNCHANGED <<line, scosts, out, prevcursor, cursor, segments, segpc,
                   reflowVars, renVars>>

\* lines 210-212: the loop is over, the walk starts at dpback[-1]
SegWalkStart ==
    /\ segpc = "dp"
    /\ j >= Len(line)
    /\ out' = <<>>
    /\ prevcursor' = Len(line)
    /\ cursor' = dpback[Len(line) - 1]
    /\ segpc' = "walk"
    /\ UNCHANGED <<line, scosts, dpcost, dpback, j, segments, reflowVars, renVars>>

\* lines 213-216: one iteration of the walk
SegWalk ==
    /\ segpc = "walk"
    /\ cursor > -1
    /\ out' = Append(out, WalkLine(line, cursor, prevcursor))
    /\ prevcursor' = cursor
    /\ cursor' = dpback[cursor]
    /\ UNCHANGED <<line, scosts, dpcost, dpback, j, segments, segpc,
                   reflowVars, renVars>>

\* line 217: return reversed(out)
SegReturn ==
    /\ segpc = "walk"
    /\ ~(cursor > -1)
    /\ segments' = Reverse(out)
    /\ segpc' = "done"
    /\ UNCHANGED <<line, scosts, dpcost, dpback, j, out, prevcursor, cursor,
                   reflowVars, renVars>>

SegNext ==
    \/ SegStart
    \/ SegDP
    \/ SegWalkStart
    \/ SegWalk
    \/ SegReturn

SegSpec == SegInit /\ [][SegNext]_vars

(***************************************************************************)
(* join_spans() on its own, over any sequence of tokenized spans.          *)
(***************************************************************************)
\* the token that marks the span given at each position of the input
SpanTokens == << <<"p">>, <<"q">>, <<"r">>, <<"s">>, <<"t">> >>

\* the tokenized spans join_spans() may be given at position k: a
\* reflow-eligible span with no or one token, and a non-reflow span holding its
\* text, under every join policy join_spans() tells apart
JoinSamples(k) ==
    {[content |-> c, segment |-> TRUE, join_left |-> "allow", join_right |-> jr] :
        c \in {<<>>, <<SpanTokens[k]>>}, jr \in {"allow", "forbid"}}
    \cup
    {[content |-> <<SpanTokens[k]>>, segment |-> FALSE,
      join_left |-> jl, join_right |-> jr] :
        jl \in {"allow", "prefer", "forbid"}, jr \in {"allow", "forbid"}}

JoinInit ==
    /\ ReflowIdle /\ pc = "joining"
    /\ SegIdle /\ segpc = "idle"
    /\ RenIdle

\* one iteration of the loop of join_spans(): the next span of the input
JoinSpan ==
    /\ pc = "joining"
    /\ Len(spans) < MaxSpans
    /\ \E span \in JoinSamples(Len(spans) + 1) :
        /\ spans' = Append(spans, span)
        /\ \E one \in {JoinStep(previous, span)} :
            /\ previous' = one.previous
            /\ joined' = joined \o one.yield
    /\ UNCHANGED <<items, current, output, pc, segVars, renVars>>

\* the input is exhausted: the pending span, if any, is yielded
JoinEnd ==
    /\ pc = "joining"
    /\ joined' = joined \o previous
    /\ pc' = "joined"
    /\ UNCHANGED <<items, current, spans, previous, output, segVars, renVars>>

JoinNext ==
    \/ JoinSpan
    \/ JoinEnd

JoinSpec == JoinInit /\ [][JoinNext]_vars

(***************************************************************************)
(* regexrename.py: Renamer.visit(), Renamer.check(), Renamer.execute() and *)
(* rename(), on one directory (main() with --shallow).                     *)
(***************************************************************************)
MAX_ERRORS == 30

\* names, in sort order; the directory holds some of the first MaxFiles, and
\* a transform may also give one name more
NamePool == <<"a", "b", "c", "d", "e">>
FileNames == {NamePool[i] : i \in 1..MaxFiles}
NewNames == {NamePool[i] : i \in 1..(MaxFiles + 1)}

NameIndex(name) == CHOOSE i \in 1..Len(NamePool) : NamePool[i] = name

\* fnames.sort()
RECURSIVE Sorted(_)
Sorted(names) ==
    IF names = {} THEN <<>>
    ELSE LET first == CHOOSE x \in names :
                          \A y \in names : NameIndex(x) <= NameIndex(y)
         IN <<first>> \o Sorted(names \ {first})

\* Action(frm, to)
Action(frm, to) == [frm |-> frm, to |-> to]

\* Renamer.check(): the number of items of local with the same target
Conflicts(to, loc) == Cardinality({i \in 1..Len(loc) : loc[i].to = to})

\* Renamer(trafo) is constructed, for any directory and any transform
RenInit ==
    /\ ReflowIdle /\ pc = "done"
    /\ SegIdle /\ segpc = "idle"
    /\ files \in SUBSET FileNames
    /\ transform \in [FileNames -> NewNames]
    /\ fnames = <<>> /\ nvisited = 0 /\ local = <<>>
    /\ schedule = <<>> /\ failed = 0 /\ todo = <<>>
    /\ rpc = "start"

\* main() line 190 and visit() lines 116-117: the names are listed and sorted
RenList ==
    /\ rpc = "start"
    /\ fnames' = Sorted(files)
    /\ local' = <<>>
    /\ nvisited' = 0
    /\ rpc' = "visit"
    /\ UNCHANGED <<files, transform, schedule, failed, todo, reflowVars, segVars>>

\* visit() lines 118-128: one iteration of the loop, with the call of check()
RenVisit ==
    /\ rpc = "visit"
    /\ nvisited < Len(fnames)
    /\ LET frm == fnames[nvisited + 1]
           to == transform[frm]
           hits == Conflicts(to, local)
       IN IF hits > 0 /\ failed + hits >= MAX_ERRORS
          THEN /\ failed' = MAX_ERRORS
               /\ rpc' = "fatal"
               /\ UNCHANGED <<nvisited, local, schedule>>
          ELSE /\ failed' = failed + hits
               /\ local' = Append(local, Action(frm, to))
               /\ schedule' = IF frm = to THEN schedule
                              ELSE Append(schedule, Action(frm, to))
               /\ nvisited' = nvisited + 1
               /\ rpc' = rpc
    /\ UNCHANGED <<files, transform, fnames, todo, reflowVars, segVars>>

\* main() lines 195-196: conflicts were detected, nothing is renamed
RenRefuse ==
    /\ rpc = "visit"
    /\ nvisited = Len(fnames)
    /\ failed > 0
    /\ rpc' = "refused"
    /\ UNCHANGED <<files, transform, fnames, nvisited, local, schedule, failed,
                   todo, reflowVars, segVars>>

\* execute() lines 144-146: no conflict, the schedule is taken in reverse
RenExecute ==
    /\ rpc = "visit"
    /\ nvisited = Len(fnames)
    /\ failed = 0
    /\ todo' = Reverse(schedule)
    /\ rpc' = "execute"
    /\ UNCHANGED <<files, transform, fnames, nvisited, local, schedule, failed,
                   reflowVars, segVars>>

\* rename() lines 171-172 for the next action: the target does not exist
RenRename ==
    /\ rpc = "execute"
    /\ todo # <<>>
    /\ Head(todo).to \notin files
    /\ files' = (files \ {Head(todo).frm}) \cup {Head(todo).to}
    /\ todo' = Tail(todo)
    /\ UNCHANGED <<transform, fnames, nvisited, local, schedule, failed, rpc,
                   reflowVars, segVars>>

\* rename() line 171 for the next action: the target exists, the assertion
\* fails and the run stops
RenAssertionError ==
    /\ rpc = "execute"
    /\ todo # <<>>
    /\ Head(todo).to \in files
    /\ rpc' = "assertion"
    /\ UNCHANGED <<files, transform, fnames, nvisited, local, schedule, failed,
                   todo, reflowVars, segVars>>

\* execute() returns: every action has been applied
RenDone ==
    /\ rpc = "execute"
    /\ todo = <<>>
    /\ rpc' = "done"
    /\ UNCHANGED <<files, transform, fnames, nvisited, local, schedule, failed,
                   todo, reflowVars, segVars>>

RenNext ==
    \/ RenList
    \/ RenVisit
    \/ RenRefuse
    \/ RenExecute
    \/ RenRename
    \/ RenAssertionError
    \/ RenDone

RenSpec == RenInit /\ [][RenNext]_vars

(***************************************************************************)
(* Vocabulary of the properties.                                           *)
(***************************************************************************)
\* the token list segment() was called with
SegInput == IF segpc = "call" THEN line ELSE Tail(line)

\* the tokens of a sequence of output lines, line after line
RECURSIVE LinesTokens(_)
LinesTokens(lines) ==
    IF lines = <<>> THEN <<>> ELSE Split(Head(lines)) \o LinesTokens(Tail(lines))

RECURSIVE SumSeq(_)
SumSeq(xs) == IF xs = <<>> THEN 0 ELSE Head(xs) + SumSeq(Tail(xs))

RECURSIVE SumSet(_, _)
SumSet(S, f) ==
    IF S = {} THEN 0
    ELSE LET x == CHOOSE y \in S : TRUE IN f[x] + SumSet(S \ {x}, f)

\* the lines of the partition of toks that breaks after the tokens in B
PartitionLines(toks, B) ==
    LET ends == B \cup {Len(toks)}
        nth(k) == CHOOSE e \in ends : Cardinality({x \in ends : x <= e}) = k
    IN [k \in 1..Cardinality(ends) |->
           SubSeq(toks, IF k = 1 THEN 1 ELSE nth(k - 1) + 1, nth(k))]

\* the cost of a partition: line_cost of every line plus the static cost
\* at the token before every internal break
PartitionCost(toks, B) ==
    LET lines == PartitionLines(toks, B)
        sc == static_costs(<<<<>>>> \o toks)
    IN SumSeq([k \in 1..Len(lines) |-> line_cost(lines[k])]) + SumSet(B, sc)

\* the least cost of a partition of toks into contiguous non-empty lines
MinPartitionCost(toks) ==
    IF toks = <<>> THEN 0
    ELSE LET all == {PartitionCost(toks, B) : B \in SUBSET (1..(Len(toks) - 1))}
         IN CHOOSE c \in all : \A d \in all : c <= d

\* the cost, counted the same way, of the lines segment() returned
EmittedCost(toks, lines) ==
    LET sc == static_costs(<<<<>>>> \o toks)
        count(k) == Len(Split(lines[k]))
        upto(k) == SumSeq([m \in 1..k |-> count(m)])
    IN SumSeq([k \in 1..Len(lines) |-> line_cost(Split(lines[k]))])
       + SumSeq([k \in 1..(Len(lines) - 1) |-> sc[upto(k)]])

(***************************************************************************)
(* Properties of segment(), checked under SegSpec.                         *)
(***************************************************************************)
\* C1: token preservation.  The tokens of the lines segment() returns, read
\* line after line, are exactly the tokens it was given, in the same order.
C1_TokenPreservation ==
    segpc = "done" => LinesTokens(segments) = SegInput

\* C1 witness: a list of four tokens was split into two non-empty lines
C1_Witness ==
    /\ segpc = "done"
    /\ Len(SegInput) = 4
    /\ Len(segments) = 2
    /\ \A k \in 1..2 : Len(Split(segments[k])) = 2
    /\ LinesTokens(segments) = SegInput

\* C3 as claimed: when every token is at most CHARS_MAX characters long (so
\* one token per line is a partition within the hard limit), no line that
\* segment() returns is longer than CHARS_MAX.
C3_HardLimit ==
    (segpc = "done" /\ \A t \in 1..Len(SegInput) : Len(SegInput[t]) <= CHARS_MAX)
        => \A k \in 1..Len(segments) : Len(segments[k]) <= CHARS_MAX

\* C5 as claimed: the lines segment() returns form a partition of least
\* total cost (line_cost of each line plus static cost before each break).
C5_Optimal ==
    segpc = "done" => EmittedCost(SegInput, segments) = MinPartitionCost(SegInput)

\* C6: a non-empty token list whose single-space join is at most CHARS_OPT
\* characters long comes back as exactly one line, the join itself.
C6_ShortSpanOneLine ==
    (segpc = "done" /\ SegInput # <<>> /\ Len(JoinSp(SegInput)) <= CHARS_OPT)
        => segments = <<JoinSp(SegInput)>>

\* C6 witness: a list close to the target width holding a sentence end, a
\* clause end and a function word inside it stayed on one line
C6_Witness ==
    /\ segpc = "done"
    /\ Len(SegInput) = 4
    /\ Len(JoinSp(SegInput)) > 45
    /\ Len(JoinSp(SegInput)) <= CHARS_OPT
    /\ SegInput[1][Len(SegInput[1])] \in FULLSTOPS
    /\ SegInput[2][Len(SegInput[2])] \in COMMAS
    /\ Lower(SegInput[3]) \in FUNC_WORDS
    /\ segments = <<JoinSp(SegInput)>>

\* C10 as claimed: the line emitted by the walk step that goes from position
\* jj to its predecessor cursor = dpback[jj] holds exactly the tokens
\* line[cursor+1 : jj] the dynamic program charged for; the walk starts at
\* the last position.
C10_WalkMatchesCharged ==
    [][SegWalk =>
        LET jj == IF out = <<>> THEN Len(line) - 1 ELSE prevcursor
        IN /\ cursor = dpback[jj]
           /\ out'[Len(out')] = JoinSp(noblank(Slice(line, cursor + 1, jj)))]_vars

(***************************************************************************)
(* Properties of reflow(), checked under Spec.                             *)
(***************************************************************************)
\* a is a suffix of b
IsSuffix(a, b) == Len(a) <= Len(b) /\ SubSeq(b, Len(b) - Len(a) + 1, Len(b)) = a

\* the last and the first whitespace-delimited word of a text (empty when the
\* text ends, respectively starts, with whitespace)
LastWord(s) ==
    IF \A i \in 1..Len(s) : s[i] \notin WHITESPACE THEN s
    ELSE SubSeq(s, (CHOOSE i \in 1..Len(s) :
                       /\ s[i] \in WHITESPACE
                       /\ \A k \in (i + 1)..Len(s) : s[k] \notin WHITESPACE) + 1,
                Len(s))
FirstWord(s) ==
    IF \A i \in 1..Len(s) : s[i] \notin WHITESPACE THEN s
    ELSE SubSeq(s, 1, (CHOOSE i \in 1..Len(s) :
                          /\ s[i] \in WHITESPACE
                          /\ \A k \in 1..(i - 1) : s[k] \notin WHITESPACE) - 1)

EndsWithHyphen(s) == s # <<>> /\ s[Len(s)] = "-"
EndsWithDoubleBackslash(s) ==
    Len(s) >= 2 /\ s[Len(s)] = "\\" /\ s[Len(s) - 1] = "\\"

\* a line without its newline terminator, and as an output line
NoNewline(s) == IF s # <<>> /\ s[Len(s)] = "\n" THEN SubSeq(s, 1, Len(s) - 1) ELSE s
OutLine(s) == s \o <<"\n">>

Before(k) == SubSeq(items, 1, k - 1)
UpTo(k) == SubSeq(items, 1, k)
After(k) == SubSeq(items, k + 1, Len(items))

BoundarySpans == {i \in 1..Len(joined) : ~joined[i].segment /\ joined[i].content = << <<>> >>}

\* C4 as claimed: every input line that is empty after trimming yields
\* exactly one empty output line, after all output of the lines before it and
\* before all output of the lines after it.
C4_BlankAsClaimed ==
    pc = "done" =>
        \A k \in 1..Len(items) :
            Strip(items[k]) = <<>> =>
                output = reflow(Before(k)) \o <<OutLine(<<>>)>> \o reflow(After(k))

\* C4 amended: every input line that is empty after trimming and does not
\* start with a space or tab yields exactly one empty output line, between
\* the output of the lines before it and the output of the lines after it,
\* and join_spans() yields its span on its own, never merged into another.
C4_Blank ==
    pc = "done" =>
        /\ \A k \in 1..Len(items) :
              (Strip(items[k]) = <<>> /\ items[k][1] \notin {" ", "\t"}) =>
                  output = reflow(Before(k)) \o <<OutLine(<<>>)>> \o reflow(After(k))
        /\ Cardinality(BoundarySpans)
             = Cardinality({k \in 1..Len(items) :
                              Strip(items[k]) = <<>> /\ items[k][1] \notin {" ", "\t"}})

\* C4 witness: a blank line between two prose lines gave three output lines
C4_Witness ==
    /\ pc = "done"
    /\ Len(items) = 3
    /\ LineClass(items[1]) = "prose"
    /\ items[2] = <<"\n">>
    /\ LineClass(items[3]) = "prose"
    /\ Len(output) = 3
    /\ output[2] = <<"\n">>
    /\ Cardinality(BoundarySpans) = 1

\* what a prose line contributes to its span: the trimmed line without a
\* trailing hyphen, and the separator after it
ClaimBody(text) ==
    LET t == Strip(text)
    IN IF EndsWithHyphen(t) THEN SubSeq(t, 1, Len(t) - 1) ELSE t
ClaimSep(text) == IF EndsWithHyphen(Strip(text)) THEN <<>> ELSE <<" ">>

\* the contents the reflow-eligible spans must have: every maximal run of
\* consecutive prose lines joined as C7 says; with cut, a run also ends
\* after a line whose text ends with a double backslash
RECURSIVE ClaimContents(_, _, _)
ClaimContents(lines, acc, cut) ==
    IF lines = <<>> THEN <<Strip(acc)>>
    ELSE IF LineClass(Head(lines)) # "prose"
         THEN <<Strip(acc)>> \o ClaimContents(Tail(lines), <<>>, cut)
    ELSE LET more == acc \o ClaimBody(Head(lines)) \o ClaimSep(Head(lines))
         IN IF cut /\ EndsWithDoubleBackslash(ClaimBody(Head(lines)))
            THEN <<Strip(more)>> \o ClaimContents(Tail(lines), <<>>, cut)
            ELSE ClaimContents(Tail(lines), more, cut)

RECURSIVE NonEmpty(_)
NonEmpty(xs) ==
    IF xs = <<>> THEN <<>>
    ELSE IF Head(xs) = <<>> THEN NonEmpty(Tail(xs))
    ELSE <<Head(xs)>> \o NonEmpty(Tail(xs))

\* the contents of the reflow-eligible spans paragraphs() yielded
RECURSIVE ProseContents(_)
ProseContents(sps) ==
    IF sps = <<>> THEN <<>>
    ELSE IF Head(sps).segment THEN <<Head(sps).content>> \o ProseContents(Tail(sps))
    ELSE ProseContents(Tail(sps))

\* the word made of the end of line k and the start of line k+1 is inside
\* one token of a reflow-eligible span
SomeTokenContains(tokens, w) == \E t \in 1..Len(tokens) : Contains(tokens[t], w)
JoinedWordIsOneToken(k) ==
    LET w == LastWord(ClaimBody(items[k])) \o FirstWord(ClaimBody(items[k + 1]))
    IN w # <<>> =>
          \E i \in 1..Len(spans) :
              spans[i].segment /\ SomeTokenContains(Split(spans[i].content), w)

\* C7 as claimed: every maximal run of consecutive prose lines is one
\* reflow-eligible span, a hyphen-ended line joined to the next with nothing
\* between (the hyphen cut), every other line with one space.
C7_AccumulateAsClaimed ==
    pc = "done" =>
        NonEmpty(ProseContents(spans)) = NonEmpty(ClaimContents(items, <<>>, FALSE))

\* C7 amended: the same, except that a prose line whose text (after the
\* hyphen is cut) ends with a double backslash closes its span, so the next
\* prose line starts a new one; and where a hyphen-ended line is followed by
\* a prose line in the same span, its last word and the first word of the
\* next line lie in one token.
C7_Accumulate ==
    pc = "done" =>
        /\ NonEmpty(ProseContents(spans)) = NonEmpty(ClaimContents(items, <<>>, TRUE))
        /\ \A k \in 1..(Len(items) - 1) :
              ( /\ LineClass(items[k]) = "prose"
                /\ LineClass(items[k + 1]) = "prose"
                /\ EndsWithHyphen(Strip(items[k]))
                /\ ~EndsWithDoubleBackslash(ClaimBody(items[k])) )
              => JoinedWordIsOneToken(k)

\* C7 witness: "a-" followed by "b c." became the span "ab c."
C7_Witness ==
    /\ pc = "done"
    /\ items = << <<"a", "-", "\n">>, <<"b", " ", "c", ".", "\n">> >>
    /\ ProseContents(spans) = << <<"a", "b", " ", "c", ".">> >>
    /\ output = << <<"a", "b", " ", "c", ".", "\n">> >>

\* C8 as claimed: when no output line is longer than CHARS_LONG and none
\* bears a comment, reflow of the output is the output.
C8_Idempotent ==
    ( /\ pc = "done"
      /\ \A o \in 1..Len(output) : Len(NoNewline(output[o])) <= CHARS_LONG
      /\ \A o \in 1..Len(output) : ~RE_COMMENT(output[o]) )
    => reflow(output) = output

\* C9: a prose line ending with a double backslash ends the output made from
\* the lines up to it: the last token of that output line is the one ending
\* with the double backslash, and all output of the later lines follows it.
C9_HardBreak ==
    pc = "done" =>
        \A k \in 1..Len(items) :
            ( /\ LineClass(items[k]) = "prose"
              /\ EndsWithDoubleBackslash(Strip(items[k])) )
            => LET head == reflow(UpTo(k))
                   toks == IF head = <<>> THEN <<>> ELSE Split(head[Len(head)])
               IN /\ toks # <<>>
                  /\ EndsWithDoubleBackslash(toks[Len(toks)])
                  /\ IsSuffix(LastWord(Strip(items[k])), toks[Len(toks)])
                  /\ output = head \o reflow(After(k))

\* C9 witness: a hard-broken line followed by prose stayed on its own line
C9_Witness ==
    /\ pc = "done"
    /\ Len(items) = 2
    /\ LineClass(items[1]) = "prose"
    /\ EndsWithDoubleBackslash(Strip(items[1]))
    /\ LineClass(items[2]) = "prose"
    /\ Len(output) = 2
    /\ output[1] = OutLine(Strip(items[1]))

\* the prose lines read so far at which paragraphs() took the hard-break
\* branch: the text, after a trailing hyphen is cut, ends with a double
\* backslash
HardBreakLines ==
    {k \in 1..Len(items) :
        LineClass(items[k]) = "prose" /\ EndsWithDoubleBackslash(ClaimBody(items[k]))}

\* C11 as claimed: every span the Classifier yields with segment = TRUE has
\* join_left = allow and join_right = allow.
C11_SpanPolicyAsClaimed ==
    \A i \in 1..Len(spans) :
        spans[i].segment =>
            spans[i].join_left = "allow" /\ spans[i].join_right = "allow"

\* C11 amended: every span the Classifier yields with segment = TRUE has
\* join_left = allow, and join_right = allow unless it is the span closed by
\* a hard break, which has join_right = forbid and ends with the double
\* backslash; there is exactly one such span per hard-broken prose line.
C11_SpanPolicy ==
    /\ \A i \in 1..Len(spans) :
          spans[i].segment =>
              /\ spans[i].join_left = "allow"
              /\ \/ spans[i].join_right = "allow"
                 \/ /\ spans[i].join_right = "forbid"
                    /\ EndsWithDoubleBackslash(spans[i].content)
    /\ Cardinality({i \in 1..Len(spans) :
                       spans[i].segment /\ spans[i].join_right = "forbid"})
         = Cardinality(HardBreakLines)

\* C11 witness: a hard-break span, an ordinary prose span and a verbatim
\* span have been yielded
C11_Witness ==
    /\ \E i \in 1..Len(spans) :
          spans[i].segment /\ spans[i].join_right = "forbid"
    /\ \E i \in 1..Len(spans) :
          /\ spans[i].segment /\ spans[i].content # <<>>
          /\ spans[i].join_left = "allow" /\ spans[i].join_right = "allow"
    /\ \E i \in 1..Len(spans) : ~spans[i].segment

(***************************************************************************)
(* Properties of join_spans(), checked under JoinSpec.                     *)
(***************************************************************************)
\* the spans join_spans() has yielded or still holds pending
JoinedOrPending == IF pc = "joined" THEN joined ELSE joined \o previous

\* the input spans at positions a and b lie in one of the given spans
InSameSpan(sps, a, b) ==
    \E o \in 1..Len(sps) :
        /\ \E t \in 1..Len(sps[o].content) : sps[o].content[t] = SpanTokens[a]
        /\ \E t \in 1..Len(sps[o].content) : sps[o].content[t] = SpanTokens[b]

ContentsOf(sps) == Concat([k \in 1..Len(sps) |-> sps[k].content])

\* C13: the contents of the spans join_spans() yields (with the pending span,
\* while the input lasts), concatenated in order, are the contents of the
\* input spans concatenated in order; there are at most as many output spans
\* as input spans; and when the input has ended the pending span is the last
\* span yielded.
C13_JoinConserves ==
    /\ ContentsOf(JoinedOrPending) = ContentsOf(spans)
    /\ Len(JoinedOrPending) <= Len(spans)
    /\ pc = "joined" =>
          /\ (spans # <<>>) => (previous # <<>>)
          /\ (previous # <<>>) =>
                (joined # <<>> /\ joined[Len(joined)] = previous[1])

\* C13 witness: four spans were given, the second and third were merged into
\* the first and the fourth was yielded on its own
C13_Witness ==
    /\ pc = "joined"
    /\ Len(spans) = 4
    /\ Len(joined) = 2
    /\ joined[1].content = <<SpanTokens[1], SpanTokens[2], SpanTokens[3]>>
    /\ joined[2].content = <<SpanTokens[4]>>

(***************************************************************************)
(* Further properties of segment(), checked under SegSpec.                 *)
(***************************************************************************)
\* C14: segment() of the empty token list returns no line, and segment() of
\* a list of one non-empty token returns exactly one line, the token itself.
C14_EdgeCases ==
    segpc = "done" =>
        /\ (SegInput = <<>>) => (segments = <<>>)
        /\ (Len(SegInput) = 1 /\ SegInput[1] # <<>>) => (segments = <<SegInput[1]>>)

\* C14 witness: a single token longer than CHARS_MAX was returned as one line
C14_Witness ==
    /\ segpc = "done"
    /\ Len(SegInput) = 1
    /\ Len(SegInput[1]) > CHARS_MAX
    /\ segments = <<SegInput[1]>>
\* C15: every line segment() returns holds at least one non-blank token: no
\* returned line is empty (the sentinel alone never forms a line).
C15_NoEmptyLine ==
    segpc = "done" => \A k \in 1..Len(segments) : segments[k] # <<>>
(***************************************************************************)
(* Further properties of reflow(), checked under Spec.                     *)
(***************************************************************************)
IsCommentLine(ln) == LineClass(ln) = "comment"

\* the comment-bearing input lines, trimmed, and the output lines that carry
\* a comment, each in order
CommentInputs ==
    LET sel == SelectSeq(items, IsCommentLine)
    IN [i \in 1..Len(sel) |-> Strip(sel[i])]
CommentOutputs == SelectSeq(output, IsCommentLine)

\* the tokens of the reflow-eligible spans among the given ones that carry
\* a comment marker, in order
RECURSIVE CommentTokens(_)
CommentTokens(sps) ==
    IF sps = <<>> THEN <<>>
    ELSE IF Head(sps).segment
         THEN SelectSeq(Head(sps).content, RE_COMMENT) \o CommentTokens(Tail(sps))
    ELSE CommentTokens(Tail(sps))

\* C16: the text of every comment-bearing input line is one token of a span
\* the Joiner yields, the last token of that span; every comment-bearing
\* line is on an output line of its own or at the end of one, so that the
\* output lines carrying a comment are as many as the comment-bearing input
\* lines and each ends with the text of its comment: nothing of a later
\* line, and no other comment, follows it on that line.
C16_CommentLast ==
    pc = "done" =>
        /\ CommentTokens(joined) = CommentInputs
        /\ \A i \in 1..Len(joined) :
              joined[i].segment =>
                  \A t \in 1..(Len(joined[i].content) - 1) :
                      ~RE_COMMENT(joined[i].content[t])
        /\ Len(CommentOutputs) = Len(CommentInputs)
        /\ \A i \in 1..Len(CommentInputs) :
              IsSuffix(OutLine(CommentInputs[i]), CommentOutputs[i])

\* C16 witness: a comment between two prose lines was attached to the first
\* prose line; the second prose line is on the next output line
C16_Witness ==
    /\ pc = "done"
    /\ Len(items) = 3
    /\ LineClass(items[1]) = "prose"
    /\ LineClass(items[2]) = "comment"
    /\ LineClass(items[3]) = "prose"
    /\ Len(output) = 2
    /\ output[1] = Strip(items[1]) \o <<" ">> \o OutLine(Strip(items[2]))
    /\ ~RE_COMMENT(output[2])
\* the prose lines ending in a hyphen that no prose line follows
DanglingHyphenLines ==
    {k \in 1..Len(items) :
        /\ LineClass(items[k]) = "prose"
        /\ EndsWithHyphen(Strip(items[k]))
        /\ (k = Len(items) \/ LineClass(items[k + 1]) # "prose")}

\* C17: when a prose line ending in a hyphen is the last input line or is
\* followed by a blank, indented, comment or single-command line, its last
\* word is in the output with its hyphen.
C17_HyphenKept ==
    pc = "done" =>
        \A k \in DanglingHyphenLines :
            \E o \in 1..Len(output) :
                SomeTokenContains(Split(output[o]), LastWord(Strip(items[k])))
(***************************************************************************)
(* Properties of regexrename, checked under RenSpec.                       *)
(***************************************************************************)
\* C18: when visit() has detected no conflict, the target of every rename
\* that execute() applies does not exist at the moment it is applied, so
\* the run never stops on the assertion of rename().
C18_RenameTargetFree ==
    /\ (rpc = "execute" /\ todo # <<>>) => Head(todo).to \notin files
    /\ rpc # "assertion"

====
